---------------------------- MODULE Spec2Model ----------------------------
(***************************************************************************)
(* Bin packing for Illustrator / InDesign: Packer.js (trentium's free-     *)
(* rectangle packer) and the attempts loop of packItemsIllustrator /       *)
(* packItemsIndesign with the Attempt and Block objects.                   *)
(*                                                                         *)
(* Lengths are integers (points).  Scores are exact extended rationals     *)
(* (finite fraction, +Infinity, -Infinity, NaN) with the IEEE rules of the *)
(* JavaScript operators / * + - >.                                         *)
(***************************************************************************)
EXTENDS Integers, Sequences, FiniteSets, TLC

(***************************************************************************)
(* Bounds of the model.                                                    *)
(***************************************************************************)
MaxItems == 3
MaxScoreItems == 2
MaxItemDim == 2
MaxBins == 2
MaxArtboardDim == 3
MaxPadding == 1
MaxMargin == 1
MaxAttemptSetting == 7
LargeArtboardDim == 14

(***************************************************************************)
(* Program constants.                                                      *)
(***************************************************************************)
AttemptCap == 200
AttemptBase == 4
LogFactor == 5
BinBonus == 100
LastPresetSort == 4

Undefined == 0 - 1

Max(x, y) == IF x >= y THEN x ELSE y
Min(x, y) == IF x <= y THEN x ELSE y
Abs(x) == IF x < 0 THEN 0 - x ELSE x

RECURSIVE GCD(_, _)
GCD(x, y) == IF y = 0 THEN x ELSE GCD(y, x % y)

RECURSIVE SumSeq(_)
SumSeq(s) == IF s = <<>> THEN 0 ELSE Head(s) + SumSeq(Tail(s))

(***************************************************************************)
(* JavaScript numbers as extended rationals.                               *)
(***************************************************************************)
Fin(n, d) ==
    LET g == GCD(Abs(n), d)
    IN  [kind |-> "fin", num |-> n \div g, den |-> d \div g]
Num(n) == [kind |-> "fin", num |-> n, den |-> 1]
PosInf == [kind |-> "inf", num |-> 1, den |-> 1]
NegInf == [kind |-> "ninf", num |-> 0 - 1, den |-> 1]
NaN == [kind |-> "nan", num |-> 0, den |-> 1]

Sign(v) == IF v.num > 0 THEN 1 ELSE IF v.num < 0 THEN 0 - 1 ELSE 0

\* x / y
JsDiv(x, y) ==
    IF x.kind = "nan" \/ y.kind = "nan" THEN NaN
    ELSE IF x.kind # "fin" /\ y.kind # "fin" THEN NaN
    ELSE IF x.kind # "fin" THEN (IF Sign(x) * (IF y.num < 0 THEN 0 - 1 ELSE 1) > 0 THEN PosInf ELSE NegInf)
    ELSE IF y.kind # "fin" THEN Num(0)
    ELSE IF y.num = 0 THEN (IF x.num = 0 THEN NaN ELSE IF x.num > 0 THEN PosInf ELSE NegInf)
    ELSE IF y.num > 0 THEN Fin(x.num * y.den, x.den * y.num)
    ELSE Fin(0 - (x.num * y.den), x.den * (0 - y.num))

\* x * y
JsMul(x, y) ==
    IF x.kind = "nan" \/ y.kind = "nan" THEN NaN
    ELSE IF x.kind = "fin" /\ y.kind = "fin" THEN Fin(x.num * y.num, x.den * y.den)
    ELSE IF Sign(x) * Sign(y) = 0 THEN NaN
    ELSE IF Sign(x) * Sign(y) > 0 THEN PosInf ELSE NegInf

\* x + y
JsAdd(x, y) ==
    IF x.kind = "nan" \/ y.kind = "nan" THEN NaN
    ELSE IF x.kind = "fin" /\ y.kind = "fin" THEN Fin(x.num * y.den + y.num * x.den, x.den * y.den)
    ELSE IF x.kind = "fin" THEN y
    ELSE IF y.kind = "fin" THEN x
    ELSE IF x.kind = y.kind THEN x ELSE NaN

\* x - y
JsSub(x, y) == JsAdd(x, [y EXCEPT !.num = 0 - y.num,
                                  !.kind = IF y.kind = "inf" THEN "ninf"
                                           ELSE IF y.kind = "ninf" THEN "inf" ELSE y.kind])

\* a/b < c/d for b, d > 0, without cross multiplication
RECURSIVE FracLess(_, _, _, _)
FracLess(a, b, c, d) ==
    LET q1 == a \div b
        q2 == c \div d
        r1 == a - q1 * b
        r2 == c - q2 * d
    IN  IF q1 # q2 THEN q1 < q2
        ELSE IF r2 = 0 THEN FALSE
        ELSE IF r1 = 0 THEN TRUE
        ELSE FracLess(d, r2, b, r1)

\* x > y
JsGT(x, y) ==
    IF x.kind = "nan" \/ y.kind = "nan" THEN FALSE
    ELSE IF x.kind = "fin" /\ y.kind = "fin" THEN FracLess(y.num, y.den, x.num, x.den)
    ELSE IF x.kind = y.kind THEN FALSE
    ELSE x.kind = "inf" \/ y.kind = "ninf"

JsEq(x, y) == x.kind # "nan" /\ x = y

(***************************************************************************)
(* Packer.js                                                               *)
(***************************************************************************)
Null == [live |-> FALSE, x0 |-> 0, y0 |-> 0, x1 |-> 0, y1 |-> 0]
Chunk(x0, y0, x1, y1) == [live |-> TRUE, x0 |-> x0, y0 |-> y0, x1 |-> x1, y1 |-> y1]

\* new Packer(w, h, allow90DegreeRotation) and init
Packer(w, h, allow90DegreeRotation) ==
    [allow90DegreeRotation |-> (allow90DegreeRotation = TRUE),
     root |-> [x |-> 0, y |-> 0, w |-> w, h |-> h]]

\* InitialHeap without the new chunk: the heap as destroy left it
InitialHeapNotReset(packer) == << >>

\* the heap fit starts from
InitialHeap(packer) == << Chunk(0, 0, packer.root.w, packer.root.h) >>

intersect(block0, block1) ==
    LET ix0 == Max(block0.x0, block1.x0)
        ix1 == Min(block0.x1, block1.x1)
        iy0 == Max(block0.y0, block1.y0)
        iy1 == Min(block0.y1, block1.y1)
    IN  IF ix0 <= ix1 /\ iy0 <= iy1 THEN Chunk(ix0, iy0, ix1, iy1) ELSE Null

chunkContains(heapBlock0, heapBlock1) ==
    /\ heapBlock0.x0 <= heapBlock1.x0
    /\ heapBlock0.y0 <= heapBlock1.y0
    /\ heapBlock1.x1 <= heapBlock0.x1
    /\ heapBlock1.y1 <= heapBlock0.y1

\* expand growing heapBlock1 downwards and upwards without the test that
\* heapBlock0 spans it
expandUnguarded(heapBlock0, heapBlock1) ==
    IF heapBlock1.y0 <= heapBlock0.y1
    THEN [heapBlock1 EXCEPT !.y0 = Min(heapBlock0.y0, heapBlock1.y0),
                            !.y1 = Max(heapBlock0.y1, heapBlock1.y1)]
    ELSE heapBlock1

\* expand mutates heapBlock1 only; the result is the new heapBlock1
expand(heapBlock0, heapBlock1) ==
    LET v == IF /\ heapBlock0.x0 <= heapBlock1.x0
                /\ heapBlock1.x1 <= heapBlock0.x1
                /\ heapBlock1.y0 <= heapBlock0.y1
             THEN [heapBlock1 EXCEPT !.y0 = Min(heapBlock0.y0, heapBlock1.y0),
                                     !.y1 = Max(heapBlock0.y1, heapBlock1.y1)]
             ELSE heapBlock1
    IN  IF /\ heapBlock0.y0 <= v.y0
           /\ v.y1 <= heapBlock0.y1
           /\ v.x0 <= heapBlock0.x1
        THEN [v EXCEPT !.x0 = Min(heapBlock0.x0, v.x0),
                       !.x1 = Max(heapBlock0.x1, v.x1)]
        ELSE v

\* unionMax: the assignments of null are to the parameters only, so the
\* caller's heap entries change only through expand;
\* the result is << heapBlock0, heapBlock1 >> as the caller sees them
unionMax(heapBlock0, heapBlock1) ==
    IF /\ heapBlock0.live
       /\ heapBlock1.live
       /\ intersect(heapBlock0, heapBlock1).live
       /\ ~chunkContains(heapBlock0, heapBlock1)
       /\ ~chunkContains(heapBlock1, heapBlock0)
    THEN LET n1 == expand(heapBlock0, heapBlock1)
             n0 == expand(n1, heapBlock0)
         IN  << n0, n1 >>
    ELSE << heapBlock0, heapBlock1 >>

\* unionStep without the tests of containment after unionMax
unionStepExpandOnly(heap, i, j) ==
    LET u == unionMax(heap[i], heap[j])
    IN  [heap EXCEPT ![i] = u[1], ![j] = u[2]]

\* one (i, j) step of the double loop of unionAll
unionStep(heap, i, j) ==
    LET u == unionMax(heap[i], heap[j])
        h == [heap EXCEPT ![i] = u[1], ![j] = u[2]]
    IN  IF h[i].live /\ h[j].live
        THEN IF chunkContains(h[j], h[i]) THEN [h EXCEPT ![i] = Null]
             ELSE IF chunkContains(h[i], h[j]) THEN [h EXCEPT ![j] = Null]
             ELSE h
        ELSE h

RECURSIVE unionLoop(_, _, _)
unionLoop(heap, i, j) ==
    IF i > Len(heap) THEN heap
    ELSE IF j > Len(heap) THEN unionLoop(heap, i + 1, 1)
    ELSE IF i = j THEN unionLoop(heap, i, j + 1)
    ELSE unionLoop(unionStep(heap, i, j), i, j + 1)

unionAll(heap) == SelectSeq(unionLoop(heap, 1, 1), LAMBDA c : c.live)

\* Residuals with the right chunk starting at the overlap's left edge
ResidualsRightFromLeftEdge(heapBlock, overlap) ==
    (IF overlap.y1 # heapBlock.y1
       THEN << Chunk(heapBlock.x0, overlap.y1, heapBlock.x1, heapBlock.y1) >> ELSE << >>)
    \o (IF overlap.x1 # heapBlock.x1
       THEN << Chunk(overlap.x0, heapBlock.y0, heapBlock.x1, heapBlock.y1) >> ELSE << >>)
    \o (IF heapBlock.y0 # overlap.y0
       THEN << Chunk(heapBlock.x0, heapBlock.y0, heapBlock.x1, overlap.y0) >> ELSE << >>)
    \o (IF heapBlock.x0 # overlap.x0
       THEN << Chunk(heapBlock.x0, heapBlock.y0, overlap.x0, heapBlock.y1) >> ELSE << >>)

\* Residuals without the chunk above the overlap
ResidualsWithoutTop(heapBlock, overlap) ==
    (IF overlap.x1 # heapBlock.x1
       THEN << Chunk(overlap.x1, heapBlock.y0, heapBlock.x1, heapBlock.y1) >> ELSE << >>)
    \o (IF heapBlock.y0 # overlap.y0
       THEN << Chunk(heapBlock.x0, heapBlock.y0, heapBlock.x1, overlap.y0) >> ELSE << >>)
    \o (IF heapBlock.x0 # overlap.x0
       THEN << Chunk(heapBlock.x0, heapBlock.y0, overlap.x0, heapBlock.y1) >> ELSE << >>)

\* the up to four chunks that remain of heapBlock around overlap,
\* in the order they are pushed
Residuals(heapBlock, overlap) ==
    (IF overlap.y1 # heapBlock.y1
       THEN << Chunk(heapBlock.x0, overlap.y1, heapBlock.x1, heapBlock.y1) >> ELSE << >>)
    \o (IF overlap.x1 # heapBlock.x1
       THEN << Chunk(overlap.x1, heapBlock.y0, heapBlock.x1, heapBlock.y1) >> ELSE << >>)
    \o (IF heapBlock.y0 # overlap.y0
       THEN << Chunk(heapBlock.x0, heapBlock.y0, heapBlock.x1, overlap.y0) >> ELSE << >>)
    \o (IF heapBlock.x0 # overlap.x0
       THEN << Chunk(heapBlock.x0, heapBlock.y0, overlap.x0, heapBlock.y1) >> ELSE << >>)

RECURSIVE splitLoop(_, _, _, _)
splitLoop(heap, block, i, n) ==
    IF i > n THEN heap
    ELSE LET heapBlock == heap[i]
             overlap == intersect(heapBlock, block)
         IN  IF overlap.live
             THEN splitLoop([heap EXCEPT ![i] = Null] \o Residuals(heapBlock, overlap),
                            block, i + 1, n)
             ELSE splitLoop(heap, block, i + 1, n)

adjustHeap(heap, block) == unionAll(splitLoop(heap, block, 1, Len(heap)))

\* firstFit comparing the widths only
RECURSIVE firstFitWidthOnly(_, _, _)
firstFitWidthOnly(heap, block, i) ==
    IF i > Len(heap) THEN 0
    ELSE IF /\ heap[i].live
            /\ block.w <= heap[i].x1 - heap[i].x0
         THEN i
         ELSE firstFitWidthOnly(heap, block, i + 1)

\* firstFit looking at the last heap entry only
firstFitLastChunkOnly(heap, block, i) ==
    IF /\ Len(heap) > 0
       /\ heap[Len(heap)].live
       /\ block.w <= heap[Len(heap)].x1 - heap[Len(heap)].x0
       /\ block.h <= heap[Len(heap)].y1 - heap[Len(heap)].y0
    THEN Len(heap)
    ELSE 0

\* firstFit choosing the last heap entry the block fits
firstFitFromEnd(heap, block, i) ==
    LET fitting == { c \in 1..Len(heap) :
                        /\ heap[c].live
                        /\ block.w <= heap[c].x1 - heap[c].x0
                        /\ block.h <= heap[c].y1 - heap[c].y0 }
    IN  IF fitting = {} THEN 0
        ELSE CHOOSE c \in fitting : \A d \in fitting : d <= c

\* index of the first heap entry the block fits, 0 if none
RECURSIVE firstFit(_, _, _)
firstFit(heap, block, i) ==
    IF i > Len(heap) THEN 0
    ELSE IF /\ heap[i].live
            /\ block.w <= heap[i].x1 - heap[i].x0
            /\ block.h <= heap[i].y1 - heap[i].y0
         THEN i
         ELSE firstFit(heap, block, i + 1)

\* findInHeap marking the block packed before it looks for a chunk
findInHeapMarksFirst(heap, block) ==
    LET k == firstFit(heap, block, 1)
    IN  IF k = 0 THEN [block EXCEPT !.packed = TRUE]
        ELSE [block EXCEPT !.x0 = heap[k].x0,
                           !.y0 = heap[k].y0,
                           !.x1 = heap[k].x0 + block.w,
                           !.y1 = heap[k].y0 + block.h,
                           !.packed = TRUE]

\* findInHeap returns true iff firstFit is not 0; this is the block afterwards
findInHeap(heap, block) ==
    LET k == firstFit(heap, block, 1)
    IN  IF k = 0 THEN block
        ELSE [block EXCEPT !.x0 = heap[k].x0,
                           !.y0 = heap[k].y0,
                           !.x1 = heap[k].x0 + block.w,
                           !.y1 = heap[k].y0 + block.h,
                           !.packed = TRUE]


(***************************************************************************)
(* packer-blocks: Attempt, Block, shuffle                                  *)
(***************************************************************************)
\* new Attempt(index, bins)
Attempt(index, bins) ==
    [index |-> index,
     area |-> 0,
     binCount |-> Len(bins),
     count |-> 0,
     score |-> Num(0),
     sortType |-> "not sorted",
     packedBlocks |-> << >>,
     remainingBlocks |-> << >>]

\* bestAttempt before the first attempt
NoAttempt == [Attempt(Undefined, << >>) EXCEPT !.sortType = "undefined"]

\* new Block(settings, item, index): item is the item's bounds, [w, h];
\* dw, dh are this.dimensions (rotatedDimensions is dh, dw)
Block(settings, item, index) ==
    [index |-> index,
     isRotated |-> FALSE,
     packed |-> FALSE,
     binIndex |-> Undefined,
     w |-> item.w + settings.padding,
     h |-> item.h + settings.padding,
     dw |-> item.w + settings.padding,
     dh |-> item.h + settings.padding,
     x0 |-> Undefined, y0 |-> Undefined, x1 |-> Undefined, y1 |-> Undefined]

\* Block.prototype.rotate
rotate(block) ==
    IF block.w = block.h THEN block
    ELSE LET r == ~block.isRotated
         IN  [block EXCEPT !.isRotated = r,
                           !.w = IF r THEN block.dh ELSE block.dw,
                           !.h = IF r THEN block.dw ELSE block.dh]

\* the orders of blocks: every permutation
Perms(n) == { p \in [1..n -> 1..n] : \A x, y \in 1..n : x # y => p[x] # p[y] }
Reorder(blocks, p) == [k \in 1..Len(blocks) |-> blocks[p[k]]]
Orderings(blocks) == { Reorder(blocks, p) : p \in Perms(Len(blocks)) }

\* things with the elements at p and q exchanged
Swap(things, p, q) == [things EXCEPT ![p] = things[q], ![q] = things[p]]

\* shuffle leaving the last element where it is
RECURSIVE FisherYatesKeepsLast(_, _)
FisherYatesKeepsLast(things, p) ==
    IF p = 0 THEN { things }
    ELSE IF p = Len(things) THEN FisherYatesKeepsLast(things, p - 1)
    ELSE UNION { FisherYatesKeepsLast(Swap(things, p, q), p - 1) : q \in 1..p }

\* the loop of shuffle from the element at p down: that element is
\* exchanged with one chosen at random among those up to it
RECURSIVE FisherYates(_, _)
FisherYates(things, p) ==
    IF p = 0 THEN { things }
    ELSE UNION { FisherYates(Swap(things, p, q), p - 1) : q \in 1..p }

\* shuffle(things): the orders that can come out
shuffle(things) == FisherYates(things, Len(things))

(***************************************************************************)
(* Bin Packing--Artboards.js / Bin Packing--Pages.js                       *)
(***************************************************************************)
RECURSIVE Pow(_, _)
Pow(b, e) == IF e = 0 THEN 1 ELSE b * Pow(b, e - 1)

\* floor(log2(m)) for m >= 1
RECURSIVE FloorLog2(_)
FloorLog2(m) == IF m < 2 THEN 0 ELSE 1 + FloorLog2(m \div 2)

\* -Infinity where it is a count: it is only compared with the counter of
\* the attempts loop, and is below every counter
NegInfinity == 0 - (AttemptCap + 1)

\* getMaxAttemptCount(itemCount): floor(log2(n) * 5) = floor(log2(n^5)) for
\* n >= 1, and Math.log(0) is -Infinity
getMaxAttemptCount(itemCount) ==
    IF itemCount = 0 THEN NegInfinity
    ELSE Min(AttemptCap, AttemptBase + FloorLog2(Pow(itemCount, LogFactor)))

byArea(b) == b.w * b.h
byLargestDimension(b) == Max(b.w, b.h)
byWidth(b) == b.w
byHeight(b) == b.h

\* Array.prototype.sort with a comparator "key(b) - key(a)": some order that
\* is non-increasing in the key (the order of equal keys is the engine's)
sortKey(by, b) ==
    IF by = "area" THEN byArea(b)
    ELSE IF by = "largest dimension" THEN byLargestDimension(b)
    ELSE IF by = "width" THEN byWidth(b)
    ELSE byHeight(b)

SortDescending(blocks, by) ==
    { s \in Orderings(blocks) :
        \A k \in 1..(Len(s) - 1) : sortKey(by, s[k]) >= sortKey(by, s[k + 1]) }

\* the interleaving of an area-descending list
Interleave(blocks) ==
    LET half == (Len(blocks) + 1) \div 2
        largerBlocks == SubSeq(blocks, 1, half)
        smallerBlocks == SubSeq(blocks, half + 1, Len(blocks))
    IN  [k \in 1..Len(blocks) |->
            IF k % 2 = 1 THEN largerBlocks[(k + 1) \div 2] ELSE smallerBlocks[k \div 2]]

sortBlocksByInterleaving(blocks) ==
    { Interleave(s) : s \in SortDescending(blocks, "area") }

\* sortBlocks(attempt, sortType): the attempts it can leave
sortBlocks(attempt, sortType) ==
    LET with(label, orders) ==
            { [attempt EXCEPT !.remainingBlocks = s, !.sortType = label] : s \in orders }
    IN  IF sortType = Num(0) THEN with("area", SortDescending(attempt.remainingBlocks, "area"))
        ELSE IF sortType = Num(1)
            THEN with("largest dimension", SortDescending(attempt.remainingBlocks, "largest dimension"))
        ELSE IF sortType = Num(2) THEN with("width", SortDescending(attempt.remainingBlocks, "width"))
        ELSE IF sortType = Num(3) THEN with("height", SortDescending(attempt.remainingBlocks, "height"))
        ELSE IF sortType = Num(4)
            THEN with("interleaving", sortBlocksByInterleaving(attempt.remainingBlocks))
        ELSE with("random shuffle", shuffle(attempt.remainingBlocks))

\* artboardRectToBinBounds(rect): [L, T, R, B] (y up) to [T, L, B, R] (y down)
artboardRectToBinBounds(rect) == << 0 - rect[2], rect[1], 0 - rect[4], rect[3] >>

\* MakeBin taking the margin off the left and top edges only
MakeBinMarginOnce(artboardRect, margin, padding) ==
    LET bb == artboardRectToBinBounds(artboardRect)
        binBounds == << bb[1] + margin, bb[2] + margin, bb[3], bb[4] >>
    IN  [bounds |-> binBounds,
         width |-> binBounds[4] - binBounds[2] + padding,
         height |-> binBounds[3] - binBounds[1] + padding]

\* one bin of "make bins"
MakeBin(artboardRect, margin, padding) ==
    LET bb == artboardRectToBinBounds(artboardRect)
        binBounds == << bb[1] + margin, bb[2] + margin, bb[3] - margin, bb[4] - margin >>
    IN  [bounds |-> binBounds,
         width |-> binBounds[4] - binBounds[2] + padding,
         height |-> binBounds[3] - binBounds[1] + padding]

VARIABLES
    items,            \* settings.items: the bounds [w, h] of each selected item
    artboards,        \* doc.artboards: the artboardRect << L, T, R, B >> of each
    settings,         \* padding, margin, allow90DegreeRotation, bestFitBy,
                      \* maxAttemptCount (0: undefined), tryHarder, doNotSort
    randomAttempt,    \* the second argument of packItemsIllustrator
    pc,               \* where packItemsIllustrator is
    bins,
    maxAttemptCount,
    totalItemArea,
    a,                \* the attempts loop's counter
    attempt,
    bestAttempt,
    i,                \* the bins loop's counter
    packer,
    heap,             \* packer.heap
    n,                \* the counter of the loop of fit
    result,           \* area, packedBlocks, remainingBlocks of the running fit
    executed,         \* history: what each ended attempt came to
    offered,          \* history: the turns of fit in the running attempt, each
                      \* with the bin, the block as it came and the heap it met
    placed,           \* where positionItemOnArtboard put each packed item
    selected          \* doc.selection afterwards: the items left over

vars == << items, artboards, settings, randomAttempt, pc, bins, maxAttemptCount,
           totalItemArea, a, attempt, bestAttempt, i, packer, heap, n, result,
           executed, offered, placed, selected >>

inputs == << items, artboards, settings, randomAttempt >>

totalItemCount == Len(items)
NoPacker == Packer(0, 0, FALSE)
NoResult == [area |-> 0, packedBlocks |-> << >>, remainingBlocks |-> << >>]


(***************************************************************************)
(* packItemsIllustrator(settings, randomAttempt)                           *)
(***************************************************************************)
\* up to the attempts loop: the settings are read and the bins are made
PackStart ==
    /\ pc = "start"
    /\ maxAttemptCount' =
          IF randomAttempt THEN 1
          ELSE IF settings.maxAttemptCount # 0 THEN settings.maxAttemptCount
          ELSE getMaxAttemptCount(Len(items))
    /\ bins' = [k \in 1..Len(artboards) |->
                   MakeBin(artboards[k], settings.margin, settings.padding)]
    /\ a' = 0
    /\ pc' = IF 0 < maxAttemptCount' THEN "attempts" ELSE "position"
    /\ UNCHANGED << inputs, totalItemArea, attempt, bestAttempt, i, packer, heap, n,
                    result, executed, offered, placed, selected >>

\* FreshBlocks handing the blocks of the attempt before to the next one
FreshBlocksShared ==
    IF attempt.index = Undefined
    THEN [j \in 1..Len(items) |-> Block(settings, items[j], j - 1)]
    ELSE [j \in 1..Len(items) |->
             CHOOSE b \in { attempt.packedBlocks[k] : k \in 1..Len(attempt.packedBlocks) }
                          \cup { attempt.remainingBlocks[k] : k \in 1..Len(attempt.remainingBlocks) } :
                 b.index = j - 1]

\* the fresh blocks of an attempt
FreshBlocks == [j \in 1..Len(items) |-> Block(settings, items[j], j - 1)]

\* the head of the attempts loop: a new Attempt, its blocks, the sort
NewAttempt ==
    /\ pc = "attempts"
    /\ a < maxAttemptCount
    /\ LET fresh == [Attempt(a, bins) EXCEPT !.remainingBlocks = FreshBlocks]
           sorted == IF ~settings.doNotSort
                     THEN sortBlocks(fresh, IF randomAttempt THEN PosInf ELSE Num(fresh.index))
                     ELSE { fresh }
       IN  \E s \in sorted : attempt' = s
    /\ totalItemArea' = IF a = 0
                        THEN totalItemArea + SumSeq([j \in 1..Len(items) |->
                                                        FreshBlocks[j].w * FreshBlocks[j].h])
                        ELSE totalItemArea
    /\ i' = 0
    /\ offered' = << >>
    /\ pc' = IF 0 < Len(bins) THEN "bin" ELSE "score"
    /\ UNCHANGED << inputs, bins, maxAttemptCount, a, bestAttempt, packer, heap, n,
                    result, executed, placed, selected >>

\* the head of the bins loop: new Packer, and fit up to its loop
NewPacker ==
    /\ pc = "bin"
    /\ i < Len(bins)
    /\ packer' = Packer(bins[i + 1].width, bins[i + 1].height, settings.allow90DegreeRotation)
    /\ heap' = InitialHeap(packer')
    /\ n' = 0
    /\ result' = NoResult
    /\ pc' = "fit"
    /\ UNCHANGED << inputs, bins, maxAttemptCount, totalItemArea, a, attempt, bestAttempt,
                    i, executed, offered, placed, selected >>

\* fitOne turning a block that fits in neither orientation back
fitOneRotatesBack(pk, hp, block, binIndex) ==
    LET direct == findInHeap(hp, block)
        turned == findInHeap(hp, rotate(block))
    IN  IF firstFit(hp, block, 1) # 0
        THEN << [direct EXCEPT !.binIndex = binIndex], adjustHeap(hp, direct) >>
        ELSE IF pk.allow90DegreeRotation /\ firstFit(hp, rotate(block), 1) # 0
        THEN << [turned EXCEPT !.binIndex = binIndex], adjustHeap(hp, turned) >>
        ELSE << block, hp >>

\* fitOne looking for a chunk for the rotated block first
fitOneRotatesFirst(pk, hp, block, binIndex) ==
    LET direct == findInHeap(hp, block)
        turned == findInHeap(hp, rotate(block))
    IN  IF pk.allow90DegreeRotation /\ firstFit(hp, rotate(block), 1) # 0
        THEN << [turned EXCEPT !.binIndex = binIndex], adjustHeap(hp, turned) >>
        ELSE IF firstFit(hp, block, 1) # 0
        THEN << [direct EXCEPT !.binIndex = binIndex], adjustHeap(hp, direct) >>
        ELSE << block, hp >>

\* one turn of the loop of fit on block: << the block afterwards, the heap afterwards >>
fitOne(pk, hp, block, binIndex) ==
    LET direct == findInHeap(hp, block)
        turned == findInHeap(hp, rotate(block))
        found == IF firstFit(hp, block, 1) # 0 THEN direct
                 ELSE IF pk.allow90DegreeRotation THEN turned
                 ELSE block
        newHeap == IF firstFit(hp, block, 1) # 0 THEN adjustHeap(hp, direct)
                   ELSE IF pk.allow90DegreeRotation /\ firstFit(hp, rotate(block), 1) # 0
                        THEN adjustHeap(hp, turned)
                   ELSE hp
    IN  << IF found.packed THEN [found EXCEPT !.binIndex = binIndex] ELSE found, newHeap >>

\* the loop of fit as a function: the result of the turns k, k + 1, ... on
\* blocks, from the heap hp and the result res of the turns before
RECURSIVE fitFrom(_, _, _, _, _, _)
fitFrom(pk, hp, blocks, binIndex, k, res) ==
    IF k > Len(blocks) THEN res
    ELSE LET r == fitOne(pk, hp, blocks[k], binIndex)
             block == r[1]
         IN  fitFrom(pk, r[2], blocks, binIndex, k + 1,
                     IF block.packed
                     THEN [res EXCEPT !.packedBlocks = Append(@, block),
                                      !.area = @ + block.w * block.h]
                     ELSE [res EXCEPT !.remainingBlocks = Append(@, block)])

\* Packer.prototype.fit, one block of its loop
FitBlock ==
    /\ pc = "fit"
    /\ n < Len(attempt.remainingBlocks)
    /\ LET r == fitOne(packer, heap, attempt.remainingBlocks[n + 1], i)
           block == r[1]
       IN  /\ heap' = r[2]
           /\ attempt' = [attempt EXCEPT !.remainingBlocks[n + 1] = block]
           /\ result' = IF block.packed
                        THEN [result EXCEPT !.packedBlocks = Append(@, block),
                                            !.area = @ + block.w * block.h]
                        ELSE [result EXCEPT !.remainingBlocks = Append(@, block)]
    /\ n' = n + 1
    /\ offered' = Append(offered, [binIndex |-> i,
                                   block |-> attempt.remainingBlocks[n + 1],
                                   heap |-> heap])
    /\ UNCHANGED << inputs, pc, bins, maxAttemptCount, totalItemArea, a, bestAttempt, i,
                    packer, executed, placed, selected >>

\* the score of one bin
binScore(bin, res, preferCount) ==
    LET count == Len(res.packedBlocks)
        scoreFactor == IF preferCount
                       THEN JsDiv(Num(totalItemCount), Num(count))
                       ELSE JsDiv(Num(totalItemArea), Num(res.area))
    IN  JsMul(JsDiv(Num(bin.width * bin.height), Num(res.area)), scoreFactor)

\* foldResult replacing the packed blocks instead of appending to them
foldResultNoConcat(att, res, binIndex) ==
    [att EXCEPT !.area = @ + res.area,
                !.binCount = binIndex + 1,
                !.packedBlocks = res.packedBlocks,
                !.remainingBlocks = res.remainingBlocks,
                !.score = JsAdd(@, binScore(bins[binIndex + 1], res,
                                            settings.bestFitBy = "count"))]

\* the attempt after the result of bin number binIndex is folded into it
foldResult(att, res, binIndex) ==
    [att EXCEPT !.area = @ + res.area,
                !.binCount = binIndex + 1,
                !.packedBlocks = @ \o res.packedBlocks,
                !.remainingBlocks = res.remainingBlocks,
                !.score = JsAdd(@, binScore(bins[binIndex + 1], res,
                                            settings.bestFitBy = "count"))]

\* FitReturn without the break on no remaining blocks
FitReturnNoBreak ==
    /\ pc = "fit"
    /\ n = Len(attempt.remainingBlocks)
    /\ attempt' = foldResult(attempt, result, i)
    /\ heap' = << >>
    /\ i' = i + 1
    /\ pc' = IF i' < Len(bins) THEN "bin" ELSE "score"
    /\ UNCHANGED << inputs, bins, maxAttemptCount, totalItemArea, a, bestAttempt, packer,
                    n, result, executed, offered, placed, selected >>

\* fit returns; the rest of the body of the bins loop
FitReturn ==
    /\ pc = "fit"
    /\ n = Len(attempt.remainingBlocks)
    /\ attempt' = foldResult(attempt, result, i)
    /\ heap' = << >>
    /\ IF Len(attempt'.remainingBlocks) = 0
       THEN /\ i' = i
            /\ pc' = "score"
       ELSE /\ i' = i + 1
            /\ pc' = IF i' < Len(bins) THEN "bin" ELSE "score"
    /\ UNCHANGED << inputs, bins, maxAttemptCount, totalItemArea, a, bestAttempt, packer,
                    n, result, executed, offered, placed, selected >>

\* the score of the attempt after the bins loop
finalScore(att, binTotal) ==
    JsSub(JsAdd(att.score, Num((binTotal - att.binCount) * BinBonus)),
          Num(Len(att.remainingBlocks) * BinBonus))

\* isBetter with >= for >
isBetterOrEqual(att, best) ==
    best = NoAttempt \/ JsGT(att.score, best.score) \/ JsEq(att.score, best.score)

\* does att replace best?
isBetter(att, best) == best = NoAttempt \/ JsGT(att.score, best.score)

\* what the history keeps of an attempt
Outcome(att) ==
    [index |-> att.index,
     score |-> att.score,
     binCount |-> att.binCount,
     area |-> att.area,
     packed |-> Len(att.packedBlocks),
     remaining |-> Len(att.remainingBlocks)]

\* stopsAfter without the test of tryHarder
stopsAfterIgnoringTryHarder(k, best) ==
    \/ settings.doNotSort
    \/ /\ k > LastPresetSort
       /\ Len(best.remainingBlocks) = 0

\* stopsAfter without the five preset sorts first
stopsAfterAnyAttempt(k, best) ==
    \/ settings.doNotSort
    \/ /\ settings.tryHarder # TRUE
       /\ Len(best.remainingBlocks) = 0

\* stopsAfter without the break of doNotSort
stopsAfterSortedRunsOnly(k, best) ==
    /\ settings.tryHarder # TRUE
    /\ k > LastPresetSort
    /\ Len(best.remainingBlocks) = 0

\* stopsAfter with the early exit from the last preset sort on (a >= 4)
stopsAfterLastPresetSort(k, best) ==
    \/ settings.doNotSort
    \/ /\ settings.tryHarder # TRUE
       /\ k >= LastPresetSort
       /\ Len(best.remainingBlocks) = 0

\* does the attempts loop break after attempt number k?
stopsAfter(k, best) ==
    \/ settings.doNotSort
    \/ /\ settings.tryHarder # TRUE
       /\ k > LastPresetSort
       /\ Len(best.remainingBlocks) = 0

\* after the bins loop: the final score, bestAttempt, the exits of the loop
EndAttempt ==
    /\ pc = "score"
    /\ attempt' = [attempt EXCEPT !.score = finalScore(attempt, Len(bins))]
    /\ bestAttempt' = IF isBetter(attempt', bestAttempt) THEN attempt' ELSE bestAttempt
    /\ executed' = Append(executed, Outcome(attempt'))
    /\ IF stopsAfter(a, bestAttempt')
       THEN /\ a' = a
            /\ pc' = "position"
       ELSE /\ a' = a + 1
            /\ pc' = IF a' < maxAttemptCount THEN "attempts" ELSE "position"
    /\ UNCHANGED << inputs, bins, maxAttemptCount, totalItemArea, i, packer, heap, n,
                    result, offered, placed, selected >>

\* Block.prototype.positionItemOnArtboard: the item's bounds afterwards,
\* << left, top, right, bottom >> in document coordinates (y up); the item
\* is moved so that its bounds start at (l, t), and its bounds are the
\* block's without the padding
positionItemOnArtboard(block) ==
    LET artboardRect == artboards[block.binIndex + 1]
        l == block.x0 + artboardRect[1] + settings.margin
        t == 0 - (block.y0 - artboardRect[2] + settings.margin)
    IN  [index |-> block.index,
         binIndex |-> block.binIndex,
         isRotated |-> block.isRotated,
         left |-> l,
         top |-> t,
         right |-> l + (block.w - settings.padding),
         bottom |-> t - (block.h - settings.padding)]

\* after the attempts loop: the items of the best attempt are positioned,
\* the remaining ones stay selected; reading packedBlocks of an undefined
\* bestAttempt throws a TypeError
Position ==
    /\ pc = "position"
    /\ IF bestAttempt = NoAttempt
       THEN /\ pc' = "error"
            /\ UNCHANGED << placed, selected >>
       ELSE /\ placed' = [k \in 1..Len(bestAttempt.packedBlocks) |->
                            positionItemOnArtboard(bestAttempt.packedBlocks[k])]
            /\ selected' = [k \in 1..Len(bestAttempt.remainingBlocks) |->
                              bestAttempt.remainingBlocks[k].index]
            /\ pc' = "done"
    /\ UNCHANGED << inputs, bins, maxAttemptCount, totalItemArea, a, attempt, bestAttempt,
                    i, packer, heap, n, result, executed, offered >>

Next ==
    \/ PackStart
    \/ NewAttempt
    \/ NewPacker
    \/ FitBlock
    \/ FitReturn
    \/ EndAttempt
    \/ Position

(***************************************************************************)
(* The inputs.                                                             *)
(***************************************************************************)
ItemShapes == [w : 1..MaxItemDim, h : 1..MaxItemDim]
ArtboardShapes == [w : 1..MaxArtboardDim, h : 1..MaxArtboardDim]

\* the artboards lie side by side, the k-th one k points lower than the first
ArtboardRect(k, shape) ==
    LET L == (k - 1) * (MaxArtboardDim + LargeArtboardDim)
        T == 1 - k
    IN  << L, T, L + shape.w, T - shape.h >>

ArtboardLists ==
    UNION { { [k \in 1..m |-> ArtboardRect(k, f[k])] : f \in [1..m -> ArtboardShapes] }
            : m \in 1..MaxBins }

Code(shape) == shape.w * (MaxItemDim + MaxPadding + 1) + shape.h

\* item lists up to their order (the shuffle reorders them)
ItemLists ==
    UNION { { f \in [1..m -> ItemShapes] :
                \A k \in 1..(m - 1) : Code(f[k]) <= Code(f[k + 1]) }
            : m \in 1..MaxItems }

DefaultSettings ==
    [padding |-> 0, margin |-> 0, allow90DegreeRotation |-> TRUE, bestFitBy |-> "count",
     maxAttemptCount |-> 0, tryHarder |-> FALSE, doNotSort |-> FALSE]

InitRun ==
    /\ pc = "start"
    /\ bins = << >>
    /\ maxAttemptCount = 0
    /\ totalItemArea = 0
    /\ a = 0
    /\ attempt = NoAttempt
    /\ bestAttempt = NoAttempt
    /\ i = 0
    /\ packer = NoPacker
    /\ heap = << >>
    /\ n = 0
    /\ result = NoResult
    /\ executed = << >>
    /\ offered = << >>
    /\ placed = << >>
    /\ selected = << >>

\* single attempts (Random button, Do not sort) over all small items and artboards
InitPack ==
    /\ items \in ItemLists
    /\ artboards \in ArtboardLists
    /\ \E rot \in BOOLEAN, random \in BOOLEAN :
          /\ settings = [DefaultSettings EXCEPT !.allow90DegreeRotation = rot,
                                                !.doNotSort = ~random]
          /\ randomAttempt = random
    /\ InitRun

SpecPack == InitPack /\ [][Next]_vars

\* a narrow artboard, a tiny one and a large one, in every order
ScoreShapes ==
    { [w |-> MaxItemDim, h |-> MaxItemDim + 1],
      [w |-> 1, h |-> 1],
      [w |-> LargeArtboardDim, h |-> LargeArtboardDim] }

ScoreArtboardLists ==
    UNION { { [k \in 1..m |-> ArtboardRect(k, f[k])] : f \in [1..m -> ScoreShapes] }
            : m \in 1..MaxBins }

\* whole runs: every attempt of the budget, both ways of scoring
InitScore ==
    /\ items \in { l \in ItemLists : Len(l) <= MaxScoreItems }
    /\ artboards \in ScoreArtboardLists
    /\ \E rot \in BOOLEAN, harder \in BOOLEAN, fitBy \in {"count", "area"},
          budget \in {0, MaxAttemptSetting} :
          settings = [DefaultSettings EXCEPT !.allow90DegreeRotation = rot,
                                             !.tryHarder = harder,
                                             !.bestFitBy = fitBy,
                                             !.maxAttemptCount = budget]
    /\ randomAttempt = FALSE
    /\ InitRun

SpecScore == InitScore /\ [][Next]_vars

\* equal artboards wide enough for the margins
PadShapes ==
    [w : (1 + 2 * MaxMargin)..(MaxArtboardDim + 2 * MaxMargin),
     h : (1 + 2 * MaxMargin)..(MaxArtboardDim + 2 * MaxMargin)]

PadArtboardLists ==
    { [k \in 1..m |-> ArtboardRect(k, shape)] : m \in 1..MaxBins, shape \in PadShapes }

\* single attempts with space between the items and a margin
InitPad ==
    /\ items \in ItemLists
    /\ artboards \in PadArtboardLists
    /\ \E rot \in BOOLEAN, p \in 0..MaxPadding, m \in 0..MaxMargin :
          settings = [DefaultSettings EXCEPT !.allow90DegreeRotation = rot,
                                             !.padding = p,
                                             !.margin = m]
    /\ randomAttempt = TRUE
    /\ InitRun

SpecPad == InitPad /\ [][Next]_vars

\* a few items and artboards under every setting of the attempts loop
LoopItemLists ==
    { [k \in 1..m |-> [w |-> 1, h |-> 1]] : m \in 1..MaxItems }
    \cup { << [w |-> 1, h |-> MaxItemDim], [w |-> MaxItemDim, h |-> MaxItemDim] >> }

LoopArtboardLists ==
    { << ArtboardRect(1, [w |-> 1, h |-> 1]) >>,
      << ArtboardRect(1, [w |-> MaxItemDim, h |-> MaxItemDim + 1]) >>,
      << ArtboardRect(1, [w |-> MaxItemDim, h |-> MaxItemDim + 1]),
         ArtboardRect(2, [w |-> 1, h |-> 1]) >> }

InitLoop ==
    /\ items \in LoopItemLists
    /\ artboards \in LoopArtboardLists
    /\ \E harder \in BOOLEAN, noSort \in BOOLEAN, budget \in 0..MaxAttemptSetting :
          settings = [DefaultSettings EXCEPT !.tryHarder = harder,
                                             !.doNotSort = noSort,
                                             !.maxAttemptCount = budget]
    /\ randomAttempt \in BOOLEAN
    /\ InitRun

SpecLoop == InitLoop /\ [][Next]_vars

\* the edges of the inputs: no item, no artboard, a negative space between
\* the items (blocks of no width), a negative number of attempts
EdgeItemLists == { << >> } \cup { l \in ItemLists : Len(l) <= MaxScoreItems }

EdgeArtboardLists ==
    { << >>,
      << ArtboardRect(1, [w |-> MaxArtboardDim, h |-> MaxArtboardDim]) >>,
      << ArtboardRect(1, [w |-> MaxItemDim, h |-> MaxArtboardDim]),
         ArtboardRect(2, [w |-> MaxArtboardDim, h |-> MaxArtboardDim]) >> }

InitEdge ==
    /\ items \in EdgeItemLists
    /\ artboards \in EdgeArtboardLists
    /\ \E rot \in BOOLEAN, noSort \in BOOLEAN, p \in (0 - MaxPadding)..0,
          budget \in (0 - 1)..1 :
          settings = [DefaultSettings EXCEPT !.allow90DegreeRotation = rot,
                                             !.doNotSort = noSort,
                                             !.padding = p,
                                             !.maxAttemptCount = budget]
    /\ randomAttempt \in BOOLEAN
    /\ InitRun

SpecEdge == InitEdge /\ [][Next]_vars

\* single attempts in the order of the items, and whole runs
InitRerun == InitPack \/ InitScore
SpecRerun == InitRerun /\ [][Next]_vars

\* items of different shapes in every order, through the preset sorts and
\* one shuffle or more
SortItemLists ==
    { l \in UNION { [1..m -> ItemShapes] : m \in MaxItems..(MaxItems + 1) } :
         \A k1, k2 \in 1..Len(l) : k1 # k2 => l[k1] # l[k2] }

InitSort ==
    /\ items \in SortItemLists
    /\ artboards = << ArtboardRect(1, [w |-> MaxArtboardDim, h |-> MaxArtboardDim]) >>
    /\ \E harder \in BOOLEAN :
          settings = [DefaultSettings EXCEPT !.tryHarder = harder,
                                             !.maxAttemptCount = MaxAttemptSetting]
    /\ randomAttempt = FALSE
    /\ InitRun

SpecSort == InitSort /\ [][Next]_vars

Init == InitPack \/ InitPad \/ InitScore \/ InitLoop \/ InitEdge \/ InitSort
Spec == Init /\ [][Next]_vars


(***************************************************************************)
(* Properties.                                                             *)
(***************************************************************************)
Range(s) == { s[k] : k \in DOMAIN s }
Indices(s) == [k \in DOMAIN s |-> s[k].index]

\* the blocks fit has packed so far in the running attempt, the blocks the
\* bins loop has folded into it, and those of the best attempt
PackedNow ==
    Range(attempt.packedBlocks) \cup (IF pc = "fit" THEN Range(result.packedBlocks) ELSE {})
PackedBest == Range(bestAttempt.packedBlocks)

\* the placement rectangles [x0, x0+w) x [y0, y0+h) share positive area
Overlap(b1, b2) ==
    /\ b1.x0 < b2.x0 + b2.w
    /\ b2.x0 < b1.x0 + b1.w
    /\ b1.y0 < b2.y0 + b2.h
    /\ b2.y0 < b1.y0 + b1.h

NoOverlapIn(blocks) ==
    \A b1, b2 \in blocks :
        (b1.index # b2.index /\ b1.binIndex = b2.binIndex) => ~Overlap(b1, b2)

\* C1: no two distinct packed blocks with the same binIndex overlap, in the
\* running attempt at every moment and in the best attempt
C1_NoOverlap == NoOverlapIn(PackedNow) /\ NoOverlapIn(PackedBest)

\* three blocks share bin 0 in the final best attempt, one of them rotated
C1_Witness ==
    /\ pc = "done"
    /\ \E b1, b2, b3 \in PackedBest :
          /\ b1.index < b2.index /\ b2.index < b3.index
          /\ b1.binIndex = 0 /\ b2.binIndex = 0 /\ b3.binIndex = 0
          /\ b3.isRotated

InsideBin(b) ==
    /\ b.binIndex \in 0..(Len(bins) - 1)
    /\ 0 <= b.x0
    /\ 0 <= b.y0
    /\ b.x0 + b.w <= bins[b.binIndex + 1].width
    /\ b.y0 + b.h <= bins[b.binIndex + 1].height

\* C2: every packed block lies inside the bin it is packed in
C2_Containment == \A b \in PackedNow \cup PackedBest : InsideBin(b)

\* a rotated block packed away from the origin of the second bin
C2_Witness ==
    \E b \in PackedNow : b.binIndex = 1 /\ b.isRotated /\ b.x0 + b.y0 > 0

\* the lists packedList and remainingList partition the list input, keeping its order
Partition(input, packedList, remainingList) ==
    /\ Len(packedList) + Len(remainingList) = Len(input)
    /\ Range(Indices(packedList)) \cap Range(Indices(remainingList)) = {}
    /\ SelectSeq(Indices(input), LAMBDA x : x \in Range(Indices(packedList)))
          = Indices(packedList)
    /\ SelectSeq(Indices(input), LAMBDA x : x \in Range(Indices(remainingList)))
          = Indices(remainingList)

\* every item is in exactly one of the two lists of att
Conserved(att) ==
    /\ Len(att.packedBlocks) + Len(att.remainingBlocks) = totalItemCount
    /\ Range(Indices(att.packedBlocks)) \cup Range(Indices(att.remainingBlocks))
          = 0..(totalItemCount - 1)

\* C3: fit partitions the blocks it has gone through into packedBlocks and
\* remainingBlocks in the input's order; after every bin of every attempt and
\* in the best attempt packed + remaining is the item count
C3_Conservation ==
    /\ pc = "fit" => Partition(SubSeq(attempt.remainingBlocks, 1, n),
                               result.packedBlocks, result.remainingBlocks)
    /\ pc \in {"bin", "score", "attempts", "position", "done"} /\ attempt # NoAttempt
          => Conserved(attempt)
    /\ bestAttempt # NoAttempt => Conserved(bestAttempt)
    /\ pc = "done" => Len(placed) + Len(selected) = totalItemCount

\* a fit has returned with blocks in both lists, after an earlier bin took some
C3_Witness ==
    /\ pc = "fit"
    /\ n = Len(attempt.remainingBlocks)
    /\ i = 1
    /\ Len(result.packedBlocks) > 0
    /\ Len(result.remainingBlocks) > 0
    /\ Len(attempt.packedBlocks) > 0

\* some step of packItemsIllustrator can be taken: no loop is left with
\* nothing to run, and no property of an undefined bestAttempt is read
CanStep ==
    \/ pc = "start"
    \/ pc = "attempts" /\ a < maxAttemptCount
    \/ pc = "bin" /\ i < Len(bins)
    \/ pc = "fit" /\ n <= Len(attempt.remainingBlocks)
    \/ pc = "score"
    \/ pc = "position" /\ bestAttempt # NoAttempt

\* the block of item j fits no bin in any allowed orientation
TooLarge(j) ==
    LET b == FreshBlocks[j]
        fits(w, h, bin) == w <= bin.width /\ h <= bin.height
    IN  /\ pc # "start"
        /\ \A k \in 1..Len(bins) :
              /\ ~fits(b.w, b.h, bins[k])
              /\ settings.allow90DegreeRotation => ~fits(b.h, b.w, bins[k])

\* C4: a block too large for every bin is never packed; it is among the
\* remaining blocks of every ended attempt and among the items left over at
\* the end, and the run does not stop before its end
C4_TooLargeRemains ==
    /\ \A j \in 1..Len(items) : TooLarge(j) =>
          /\ \A b \in PackedNow \cup PackedBest : b.index # j - 1
          /\ \A k \in 1..Len(placed) : placed[k].index # j - 1
          /\ attempt # NoAttempt /\ pc \in {"attempts", "position", "done"}
                => (j - 1) \in Range(Indices(attempt.remainingBlocks))
          /\ pc = "done" => (j - 1) \in Range(selected)
    /\ pc # "done" => CanStep

\* a run ends with a too large item left over next to packed ones
C4_Witness ==
    /\ pc = "done"
    /\ Len(placed) > 0
    /\ \E j \in 1..Len(items) : TooLarge(j) /\ settings.allow90DegreeRotation


\* the bounds of two placed items are at least the padding apart along x or along y
Apart(p1, p2) ==
    \/ p1.right + settings.padding <= p2.left
    \/ p2.right + settings.padding <= p1.left
    \/ p1.bottom - settings.padding >= p2.top
    \/ p2.bottom - settings.padding >= p1.top

\* the bounds of a placed item keep the margin to every edge of its artboard
InsideMargin(p) ==
    LET rect == artboards[p.binIndex + 1]
    IN  /\ rect[1] + settings.margin <= p.left
        /\ p.right <= rect[3] - settings.margin
        /\ p.top <= rect[2] - settings.margin
        /\ rect[4] + settings.margin <= p.bottom

\* C5: in the final placement two items on the same artboard are at least
\* the padding apart along x or along y, and every item keeps the margin to
\* each edge of its artboard
C5_PaddingMargin ==
    /\ \A k1, k2 \in 1..Len(placed) :
          (k1 # k2 /\ placed[k1].binIndex = placed[k2].binIndex)
             => Apart(placed[k1], placed[k2])
    /\ \A k \in 1..Len(placed) : InsideMargin(placed[k])

\* padding and margin are set, and two items, one rotated, end on the second artboard
C5_Witness ==
    /\ pc = "done"
    /\ settings.padding > 0
    /\ settings.margin > 0
    /\ \E k1, k2 \in 1..Len(placed) :
          /\ k1 # k2
          /\ placed[k1].binIndex = 1
          /\ placed[k2].binIndex = 1
          /\ placed[k1].isRotated

\* C6: the best attempt is an executed attempt, no executed attempt has a
\* higher score, and none with the same score has a lower index
C6_BestAttempt ==
    executed # << >> =>
        /\ Outcome(bestAttempt) \in Range(executed)
        /\ \A k \in 1..Len(executed) :
              /\ ~JsGT(executed[k].score, bestAttempt.score)
              /\ JsEq(executed[k].score, bestAttempt.score)
                    => bestAttempt.index <= executed[k].index

\* the loop has ended; the best attempt replaced an earlier one of lower
\* score and kept its place against a later one of the same score
C6_Witness ==
    /\ pc = "done"
    /\ \E k1, k2 \in 1..Len(executed) :
          /\ executed[k1].index < bestAttempt.index
          /\ JsGT(bestAttempt.score, executed[k1].score)
          /\ executed[k2].index > bestAttempt.index
          /\ JsEq(executed[k2].score, bestAttempt.score)

\* C7: of two executed attempts the one with fewer remaining blocks has the
\* strictly higher score
C7_FewerRemainingScoresHigher ==
    \A k1, k2 \in 1..Len(executed) :
        executed[k1].remaining < executed[k2].remaining
           => JsGT(executed[k1].score, executed[k2].score)

\* C8: of two executed attempts that pack all items, the one that uses one
\* bin fewer has the strictly higher score
C8_FewerBinsScoresHigher ==
    \A k1, k2 \in 1..Len(executed) :
        (/\ executed[k1].remaining = 0
         /\ executed[k2].remaining = 0
         /\ executed[k1].packed = executed[k2].packed
         /\ executed[k1].area = executed[k2].area
         /\ executed[k2].binCount = executed[k1].binCount + 1)
           => JsGT(executed[k1].score, executed[k2].score)

BestOf(outcomes) ==
    CHOOSE e \in Range(outcomes) :
        \A f \in Range(outcomes) :
            /\ ~JsGT(f.score, e.score)
            /\ JsEq(f.score, e.score) => e.index <= f.index

\* the attempts after which the loop is to stop when tryHarder is off
StopPoints ==
    { k \in 1..Len(executed) :
         /\ executed[k].index > LastPresetSort
         /\ BestOf(SubSeq(executed, 1, k)).remaining = 0 }

Turns(binIndex) == SelectSeq(offered, LAMBDA t : t.binIndex = binIndex)

C12_RandomRunShuffles ==
    (randomAttempt /\ pc = "done") =>
        /\ Len(executed) = 1
        /\ bestAttempt.sortType = "random shuffle"

\* C13: every run executes at least one attempt, so that bestAttempt is
\* defined when the attempts loop has ended and no error is raised
C13_AtLeastOneAttempt ==
    /\ pc \in {"position", "done", "error"} => (executed # << >> /\ bestAttempt # NoAttempt)
    /\ pc # "error"

\* C14: a run without items ends without an error, nothing packed and
\* nothing left over
C14_ZeroItemsCompletes ==
    Len(items) = 0 =>
        /\ pc # "error"
        /\ pc = "done" => (placed = << >> /\ selected = << >>)

\* C15: a run without bins fails at once: no Attempt is created, no attempt
\* is executed, and the run does not end as a packing does
C15_NoBinsNoAttempt ==
    (pc # "start" /\ Len(bins) = 0) =>
        /\ attempt = NoAttempt
        /\ executed = << >>
        /\ pc # "done"

\* C16: a block whose width or height is not positive once the padding is
\* added is never packed
C16_NonPositiveNeverPacked ==
    \A j \in 1..Len(items) :
        (FreshBlocks[j].w <= 0 \/ FreshBlocks[j].h <= 0)
           => \A b \in PackedNow \cup PackedBest : b.index # j - 1

\* the blocks of a list of turns, as they came
BlocksOf(turns) == [k \in 1..Len(turns) |-> turns[k].block]

\* the heap of a new bin: one chunk, the whole bin
WholeBin(k) == << Chunk(0, 0, bins[k].width, bins[k].height) >>

\* the bins loop on the blocks in the order of the items, as a function of
\* the bins, the settings and the items alone: << packed, remaining >>
RECURSIVE UnsortedRun(_, _, _)
UnsortedRun(packedList, remainingList, binIndex) ==
    IF binIndex >= Len(bins) THEN << packedList, remainingList >>
    ELSE LET res == fitFrom(Packer(bins[binIndex + 1].width, bins[binIndex + 1].height,
                                   settings.allow90DegreeRotation),
                            WholeBin(binIndex + 1), remainingList, binIndex, 1, NoResult)
         IN  IF Len(res.remainingBlocks) = 0
             THEN << packedList \o res.packedBlocks, << >> >>
             ELSE UnsortedRun(packedList \o res.packedBlocks, res.remainingBlocks,
                              binIndex + 1)

\* C17: the result of fit is that of its loop on the blocks it was given,
\* started from the whole bin as the one free chunk, whatever attempts and
\* bins came before; and a run with doNotSort ends with the placements
\* (binIndex, x0, y0, isRotated of every block) that the items, the bins and
\* the settings determine
C17_Determinism ==
    /\ pc = "fit" =>
          /\ packer = Packer(bins[i + 1].width, bins[i + 1].height,
                             settings.allow90DegreeRotation)
          /\ result = fitFrom(packer, WholeBin(i + 1), BlocksOf(Turns(i)), i, 1, NoResult)
    /\ (settings.doNotSort /\ pc = "done") =>
          LET run == UnsortedRun(<< >>, FreshBlocks, 0)
          IN  /\ bestAttempt.packedBlocks = run[1]
              /\ bestAttempt.remainingBlocks = run[2]
              /\ placed = [k \in 1..Len(run[1]) |-> positionItemOnArtboard(run[1][k])]

\* a fit on the second bin has returned with a block packed, after a fit on
\* the first bin in this attempt and after an earlier attempt of the run
C17_Witness ==
    /\ pc = "fit"
    /\ n = Len(attempt.remainingBlocks)
    /\ i = 1
    /\ a > 0
    /\ Len(result.packedBlocks) > 0
    /\ Len(attempt.packedBlocks) > 0

\* a w x h block fits a free chunk of heap
FitsSome(hp, w, h) ==
    \E c \in 1..Len(hp) :
        /\ hp[c].live
        /\ w <= hp[c].x1 - hp[c].x0
        /\ h <= hp[c].y1 - hp[c].y0

\* at turn t the block fits no free chunk in any allowed orientation
NoRoom(t) ==
    /\ ~FitsSome(t.heap, t.block.w, t.block.h)
    /\ settings.allow90DegreeRotation => ~FitsSome(t.heap, t.block.h, t.block.w)

\* the blocks packed so far in the running attempt
PackedInAttempt ==
    Range(attempt.packedBlocks) \cup (IF pc = "fit" THEN Range(result.packedBlocks) ELSE {})

\* C18: within an attempt the bins take their turns in increasing order from
\* bin 0, none left out, and a block packed in bin k was offered before to
\* each of the bins 0..k-1 and fitted no free chunk of it at that turn
C18_NoLookAhead ==
    /\ offered # << >> => offered[1].binIndex = 0
    /\ \A k \in 1..(Len(offered) - 1) :
          offered[k + 1].binIndex \in { offered[k].binIndex, offered[k].binIndex + 1 }
    /\ \A k \in 1..Len(offered) : offered[k].binIndex <= i
    /\ \A b \in PackedInAttempt :
          /\ \E k \in 1..Len(offered) :
                /\ offered[k].binIndex = b.binIndex
                /\ offered[k].block.index = b.index
                /\ ~NoRoom(offered[k])
          /\ \A j \in 0..(b.binIndex - 1) :
                \E k \in 1..Len(offered) :
                    /\ offered[k].binIndex = j
                    /\ offered[k].block.index = b.index
                    /\ NoRoom(offered[k])

\* an attempt has ended with a block in the second bin that the first bin
\* was offered before a block it took
C18_Witness ==
    /\ pc = "score"
    /\ \E k1, k2 \in 1..Len(offered) :
          /\ k1 < k2
          /\ offered[k2].binIndex = 0
          /\ \E b1, b0 \in Range(attempt.packedBlocks) :
                /\ b1.index = offered[k1].block.index
                /\ b1.binIndex = 1
                /\ b0.index = offered[k2].block.index
                /\ b0.binIndex = 0

\* C19: a normal run with the derived budget executes five attempts or
\* more, the first five with the indices 0 to 4
C19_FivePresetAttempts ==
    (/\ pc = "done"
     /\ ~randomAttempt
     /\ ~settings.doNotSort
     /\ settings.maxAttemptCount = 0) =>
        /\ Len(executed) >= LastPresetSort + 1
        /\ \A k \in 1..(LastPresetSort + 1) : executed[k].index = k - 1

\* the turn of the running fit in which the block of this index came
TurnOf(index) == CHOOSE t \in Range(Turns(i)) : t.block.index = index

\* C20 as stated: a block that fit returns in remainingBlocks has the w, h
\* and isRotated it came with
C20_UnplacedUnchanged ==
    pc = "fit" =>
        \A b \in Range(result.remainingBlocks) :
            LET before == TurnOf(b.index).block
            IN  /\ b.w = before.w
                /\ b.h = before.h
                /\ b.isRotated = before.isRotated

\* C20 amended: a block that fit returns in remainingBlocks is the block it
\* came as if rotation is not allowed or the block is square; if rotation
\* is allowed and w # h it is that block rotated: w and h exchanged,
\* isRotated negated, nothing else changed
C20_UnplacedRotatedOnce ==
    pc = "fit" =>
        \A b \in Range(result.remainingBlocks) :
            LET before == TurnOf(b.index).block
            IN  /\ ~b.packed
                /\ IF settings.allow90DegreeRotation /\ before.w # before.h
                   THEN b = [before EXCEPT !.w = before.h,
                                           !.h = before.w,
                                           !.isRotated = ~before.isRotated]
                   ELSE b = before

\* the second bin returns a block turned back to the orientation of the
\* item, after the first bin had returned it rotated
C20_Witness ==
    /\ pc = "fit"
    /\ i = 1
    /\ settings.allow90DegreeRotation
    /\ \E b \in Range(result.remainingBlocks) :
          /\ b.w # b.h
          /\ ~b.isRotated
          /\ TurnOf(b.index).block.isRotated

\* the orientation of block after differs from that of block before
Switched(before, after) ==
    \/ after.w # before.w
    \/ after.h # before.h
    \/ after.isRotated # before.isRotated

\* after is before rotated: w and h exchanged, isRotated negated
Rotated(before, after) ==
    /\ after.w = before.h
    /\ after.h = before.w
    /\ after.isRotated = ~before.isRotated

\* every block of the running attempt and of the best attempt
AllBlocks ==
    Range(attempt.packedBlocks) \cup Range(attempt.remainingBlocks)
    \cup Range(bestAttempt.packedBlocks) \cup Range(bestAttempt.remainingBlocks)
    \cup Range(result.packedBlocks) \cup Range(result.remainingBlocks)

\* C21: fit switches the orientation of a block only if rotation is allowed
\* and no free chunk fits the block as it came, and then to the rotated
\* block; without rotation every block keeps isRotated = false and the w and
\* h it was made with, and a block that no chunk fits as it came stays
\* unpacked; with rotation a block that is the first offered to a bin and
\* fits the bin only when rotated is packed rotated at (0, 0)
C21_RotationRule ==
    /\ pc = "fit" =>
          \A k \in 1..n :
              LET before == Turns(i)[k].block
                  after == attempt.remainingBlocks[k]
                  hp == Turns(i)[k].heap
                  rot == settings.allow90DegreeRotation
              IN  /\ Switched(before, after) =>
                        /\ rot
                        /\ ~FitsSome(hp, before.w, before.h)
                        /\ Rotated(before, after)
                  /\ (~rot /\ ~FitsSome(hp, before.w, before.h)) => ~after.packed
                  /\ (/\ rot
                      /\ k = 1
                      /\ hp = WholeBin(i + 1)
                      /\ ~FitsSome(hp, before.w, before.h)
                      /\ FitsSome(hp, before.h, before.w)) =>
                        /\ after.packed
                        /\ after.x0 = 0
                        /\ after.y0 = 0
                        /\ Rotated(before, after)
    /\ ~settings.allow90DegreeRotation =>
          \A b \in AllBlocks : ~b.isRotated /\ b.w = b.dw /\ b.h = b.dh

\* the first block offered to the first bin fits it only when rotated and
\* is packed rotated at (0, 0)
C21_Witness ==
    /\ pc = "fit"
    /\ i = 0
    /\ n >= 1
    /\ settings.allow90DegreeRotation
    /\ ~FitsSome(Turns(0)[1].heap, Turns(0)[1].block.w, Turns(0)[1].block.h)
    /\ attempt.remainingBlocks[1].packed
    /\ attempt.remainingBlocks[1].isRotated
    /\ attempt.remainingBlocks[1].x0 = 0
    /\ attempt.remainingBlocks[1].y0 = 0

\* the chunks of hp that a w x h block fits
Fitting(hp, w, h) ==
    { c \in 1..Len(hp) :
         /\ hp[c].live
         /\ w <= hp[c].x1 - hp[c].x0
         /\ h <= hp[c].y1 - hp[c].y0 }

\* C22: a block that is placed has its corner (x0, y0) at the corner of the
\* first chunk, in the order of the heap it met, that is as wide and as high
\* as the block is then; x1, y1 are x0 + w, y0 + h, and the block is marked
\* packed with the binIndex given to fit
C22_FirstFit ==
    pc = "fit" =>
        \A k \in 1..n :
            LET after == attempt.remainingBlocks[k]
                hp == Turns(i)[k].heap
                fitting == Fitting(hp, after.w, after.h)
            IN  after.packed =>
                    /\ fitting # {}
                    /\ \E c \in fitting :
                          /\ \A d \in fitting : c <= d
                          /\ after.x0 = hp[c].x0
                          /\ after.y0 = hp[c].y0
                    /\ after.x1 = after.x0 + after.w
                    /\ after.y1 = after.y0 + after.h
                    /\ after.binIndex = i

\* a block was placed in the second bin where two chunks of different
\* corners fitted it
C22_Witness ==
    /\ pc = "fit"
    /\ i = 1
    /\ \E k \in 1..n :
          LET after == attempt.remainingBlocks[k]
              hp == Turns(1)[k].heap
          IN  /\ after.packed
              /\ \E c, d \in Fitting(hp, after.w, after.h) :
                    hp[c].x0 # hp[d].x0 \/ hp[c].y0 # hp[d].y0

\* the blocks the running fit has placed in its bin
PlacedInBin == IF pc = "fit" THEN Range(result.packedBlocks) ELSE {}

\* the interior of chunk c meets the interior of the placement of block b
Covers(c, b) ==
    /\ c.x0 < b.x0 + b.w
    /\ b.x0 < c.x1
    /\ c.y0 < b.y0 + b.h
    /\ b.y0 < c.y1

\* C23: during a fit every chunk of the heap lies inside the bin, and its
\* interior meets the interior of no block placed in the bin
C23_FreeRegionSound ==
    pc = "fit" =>
        \A c \in 1..Len(heap) :
            /\ heap[c].live
            /\ 0 <= heap[c].x0
            /\ heap[c].x0 <= heap[c].x1
            /\ heap[c].x1 <= bins[i + 1].width
            /\ 0 <= heap[c].y0
            /\ heap[c].y0 <= heap[c].y1
            /\ heap[c].y1 <= bins[i + 1].height
            /\ \A b \in PlacedInBin : ~Covers(heap[c], b)

\* a w x h block at (x, y) lies in bin number k and meets none of the blocks
FreeAt(x, y, w, h, k, blocks) ==
    /\ x + w <= bins[k].width
    /\ y + h <= bins[k].height
    /\ \A b \in blocks : ~Covers([x0 |-> x, y0 |-> y, x1 |-> x + w, y1 |-> y + h], b)

\* there is a place in bin number k for a w x h block among the blocks
HasPlace(w, h, k, blocks) ==
    \E x \in 0..bins[k].width, y \in 0..bins[k].height : FreeAt(x, y, w, h, k, blocks)

\* C24: fit leaves a block unplaced only if, at its turn, the bin has no
\* place for it among the blocks placed before, as it came or, with
\* rotation, rotated
C24_FreeRegionComplete ==
    pc = "fit" =>
        \A k \in 1..n :
            LET after == attempt.remainingBlocks[k]
                before == Turns(i)[k].block
                earlier == { attempt.remainingBlocks[m] : m \in { m \in 1..(k - 1) :
                                attempt.remainingBlocks[m].packed } }
            IN  ~after.packed =>
                    /\ ~HasPlace(before.w, before.h, i + 1, earlier)
                    /\ settings.allow90DegreeRotation
                          => ~HasPlace(before.h, before.w, i + 1, earlier)

\* C25: after unionAll the heap has no null entry and no chunk that is
\* contained in, or equal to, another chunk
C25_UnionResult ==
    pc = "fit" =>
        /\ \A c \in 1..Len(heap) : heap[c].live
        /\ \A c, d \in 1..Len(heap) : c # d => ~chunkContains(heap[c], heap[d])

\* the heap the fit of block number k of the running fit met, split around
\* the block as it was placed
SplitAt(k) ==
    splitLoop(Turns(i)[k].heap, attempt.remainingBlocks[k], 1, Len(Turns(i)[k].heap))

\* the bin holds two blocks, and the heap has two chunks whose interiors meet
C23_Witness ==
    /\ pc = "fit"
    /\ Len(result.packedBlocks) >= 2
    /\ \E c, d \in 1..Len(heap) :
          /\ c # d
          /\ heap[c].x0 < heap[d].x1
          /\ heap[d].x0 < heap[c].x1
          /\ heap[c].y0 < heap[d].y1
          /\ heap[d].y0 < heap[c].y1

\* a block was left unplaced, with rotation allowed, in a bin that holds a
\* block and has a chunk left
C24_Witness ==
    /\ pc = "fit"
    /\ settings.allow90DegreeRotation
    /\ Len(heap) > 0
    /\ \E k \in 2..n :
          /\ ~attempt.remainingBlocks[k].packed
          /\ \E m \in 1..(k - 1) : attempt.remainingBlocks[m].packed

\* the last block was placed, and the union pass after it took away
\* chunks of the split heap and left two or more
C25_Witness ==
    /\ pc = "fit"
    /\ n >= 2
    /\ attempt.remainingBlocks[n].packed
    /\ Len(heap) >= 2
    /\ Len(SelectSeq(SplitAt(n), LAMBDA c : c.live)) > Len(heap)

\* the bins loop of att has stopped as it should: binCount bins were
\* processed, all of them unless nothing remains, and no block is in a later bin
StoppedRight(att) ==
    /\ att.binCount \in 1..Len(bins)
    /\ att.binCount < Len(bins) => att.remainingBlocks = << >>
    /\ \A b \in Range(att.packedBlocks) : b.binIndex \in 0..(att.binCount - 1)

\* C26: the bins loop stops right after the first bin whose fit leaves no
\* remaining block: a Packer is made for a later bin only while blocks
\* remain, binCount is the number of bins processed, binCount < number of
\* bins implies no remaining block, and no block is packed in, and no fit
\* run on, a bin of index >= binCount
C26_BinLoopStops ==
    /\ (pc \in {"bin", "fit"} /\ i > 0) =>
          /\ Turns(i - 1) # << >>
          /\ pc = "bin" => attempt.remainingBlocks # << >>
    /\ (pc = "score" /\ Len(bins) > 0) =>
          /\ StoppedRight(attempt)
          /\ packer = Packer(bins[attempt.binCount].width, bins[attempt.binCount].height,
                             settings.allow90DegreeRotation)
          /\ \A k \in 1..Len(offered) : offered[k].binIndex < attempt.binCount
          /\ \A j \in 1..(attempt.binCount - 1) : Turns(j) # << >>
    /\ (bestAttempt # NoAttempt /\ Len(bins) > 0) => StoppedRight(bestAttempt)

\* the bins loop has stopped after the first of two bins, which took two blocks or more
C26_Witness ==
    /\ pc = "score"
    /\ Len(bins) = 2
    /\ attempt.binCount = 1
    /\ Len(attempt.packedBlocks) >= 2
    /\ attempt.remainingBlocks = << >>

Descending(s, by) ==
    \A k \in 1..(Len(s) - 1) : sortKey(by, s[k]) >= sortKey(by, s[k + 1])

\* the elements of s at the odd places, then those at the even places
OddsThenEvens(s) ==
    LET half == (Len(s) + 1) \div 2
    IN  [k \in 1..Len(s) |-> IF k <= half THEN s[2 * k - 1] ELSE s[2 * (k - half)]]

\* C28: in a normal run the order in which an attempt offers the blocks is
\* a permutation of all the blocks; non-increasing in w*h for attempt 0, in
\* max(w, h) for 1, in w for 2, in h for 3; for attempt 4 the blocks at the
\* places 1, 3, 5, ... followed by those at the places 2, 4, ... are a list
\* non-increasing in w*h; and the shuffle of the later attempts can give
\* every permutation, and permutations only
C28_OrderingStrategies ==
    /\ pc = "start" => shuffle(FreshBlocks) = Orderings(FreshBlocks)
    /\ (pc = "bin" /\ i = 0 /\ ~randomAttempt /\ ~settings.doNotSort) =>
          LET order == attempt.remainingBlocks
          IN  /\ order \in Orderings(FreshBlocks)
              /\ a = 0 => Descending(order, "area") /\ attempt.sortType = "area"
              /\ a = 1 => Descending(order, "largest dimension")
              /\ a = 2 => Descending(order, "width")
              /\ a = 3 => Descending(order, "height")
              /\ a = 4 => Descending(OddsThenEvens(order), "area")
              /\ a > 4 => attempt.sortType = "random shuffle"

\* the shuffle of attempt 5 has turned four blocks, given in an order
\* increasing in area, into an order that no preset sort gives
C28_Witness ==
    /\ pc = "bin"
    /\ i = 0
    /\ a = LastPresetSort + 1
    /\ Len(items) = 4
    /\ ~Descending(attempt.remainingBlocks, "area")
    /\ ~Descending(attempt.remainingBlocks, "largest dimension")
    /\ ~Descending(attempt.remainingBlocks, "width")
    /\ ~Descending(attempt.remainingBlocks, "height")
    /\ ~Descending(OddsThenEvens(attempt.remainingBlocks), "area")
    /\ Indices(attempt.remainingBlocks) # Indices(FreshBlocks)

\* C29: every bin score is computed with a packed area and a packed count
\* that are not 0, and the score of every executed attempt is a finite number
C29_FiniteScores ==
    /\ (pc = "fit" /\ n = Len(attempt.remainingBlocks)) =>
          /\ result.area # 0
          /\ Len(result.packedBlocks) # 0
    /\ \A k \in 1..Len(executed) : executed[k].score.kind = "fin"

\* the blocks of a new attempt, made from the items and the settings
NewBlocks == [j \in 1..Len(items) |-> Block(settings, items[j], j - 1)]

\* the orders in which the attempt with index k may offer its new blocks
OrdersOf(k) ==
    IF settings.doNotSort THEN { NewBlocks }
    ELSE { s.remainingBlocks :
              s \in sortBlocks([Attempt(k, bins) EXCEPT !.remainingBlocks = NewBlocks],
                               IF randomAttempt THEN PosInf ELSE Num(k)) }

\* the lists of att are those of the bins loop, from whole bins, on order
IsRunOf(att, order) ==
    LET run == UnsortedRun(<< >>, order, 0)
    IN  /\ att.packedBlocks = run[1]
        /\ att.remainingBlocks = run[2]

=============================================================================
